---- MODULE Spec2Model ----
(***************************************************************************)
(* GameEngine of "Catch Zone" (three-lane catch game).                     *)
(*                                                                         *)
(* The engine is one object whose fields are mutated by three command      *)
(* handlers (start, stop, moveBasket), four setInterval callbacks (level   *)
(* countdown, item spawner, item updater, level-up countdown) and one      *)
(* setTimeout callback per caught item (the 300 ms removal).  JavaScript   *)
(* runs every handler to completion, so each handler is one action, and    *)
(* every firing of a timer is a step of its own.                           *)
(*                                                                         *)
(* Callbacks: the five callback fields are null after construction and are *)
(* changed only by the five set...Callback functions; a handler calls a    *)
(* callback only when its field is set.  The page registers all five       *)
(* before it starts the engine.  alert() needs no registration.            *)
(*                                                                         *)
(* Every handler is written as an operator from an engine record to an     *)
(* engine record, in the order of the statements of the source; an action  *)
(* applies the operator to the current fields and stores the result.       *)
(*                                                                         *)
(* Timers: a handle field is "null", "live" (it names a running interval)  *)
(* or "cleared" (it names an interval that clearInterval has cancelled).   *)
(* An interval whose handle was overwritten while it was running can no    *)
(* longer be cancelled; its kind is kept in orphans.  The browser only     *)
(* promises a minimum delay, so ticks of different timers interleave       *)
(* freely.                                                                 *)
(*                                                                         *)
(* Units: dropTime is held in tenths of a second, progress in units of     *)
(* 1/ProgressOne, so that deltaTime / dropTime is an integer for every     *)
(* drop time the engine produces.                                          *)
(***************************************************************************)
EXTENDS Integers, Sequences, FiniteSets, TLC

VARIABLES
    isGameActive, score, level, missCount, basketPosition, items,
    levelTimeRemaining, isLevelUpPause, levelUpCountdown, isLevelEnding,
    levelTimer, itemSpawnTimer, itemUpdateTimer, levelUpCountdownTimer,
    onScoreChange, onMissChange, onLevelChange, onGameEnd, onBasketMove,
    spawnInterval,\* delay in ms of the interval itemSpawnTimer names, 0 before the first
    orphans,      \* kinds of interval still running with no handle left
    pending,      \* ids of items whose removal timeout has not fired yet
    stale,        \* ids of pending whose timeout was set before the last start()
    emitted,      \* notifications made by the last handler, in order
    gameOvers,    \* gameOver() calls since the last start()
    started,      \* start() has been called on this engine
    lastOp        \* the handler that ran last

vars == <<isGameActive, score, level, missCount, basketPosition, items,
          levelTimeRemaining, isLevelUpPause, levelUpCountdown, isLevelEnding,
          levelTimer, itemSpawnTimer, itemUpdateTimer, levelUpCountdownTimer,
          onScoreChange, onMissChange, onLevelChange, onGameEnd, onBasketMove,
          spawnInterval, orphans, pending, stale, emitted, gameOvers, started,
          lastOp>>

----------------------------------------------------------------------------
(* Bounds of the model *)

\* items in the air at once, and the highest score a run is followed to
MaxItems == 1

MaxScore == 100

\* SpecItems: two items at once
ItemsMaxItems == 2

ItemsMaxScore == 250

\* the zones items are spawned in: zones[1] .. zones[MaxZoneIndex]
MaxZoneIndex == 2

\* the item types spawned: itemTypes[1] .. itemTypes[MaxTypeIndex]
MaxTypeIndex == 2

ItemsMaxTypeIndex == 3

MaxIds == 2

MaxLevel == 2

MaxOverrun == 1

MaxOrphans == 3

\* Math.random() in getItemSpawnInterval, in tenths: 0 .. the bound
MaxRandom == 1

\* the same, in the runs that are followed through their timers
LeanMaxRandom == 0

\* SpecFair: bombs in the first zone
FairZoneIndex == 1

FairTypeIndex == 1

FairMaxScore == 0

\* SpecLevels: the levels a run is looked at
MaxDropLevel == 20

\* SpecItems: the level the run is looked at, the first with the least drop time
ItemsLevel == 8

----------------------------------------------------------------------------
(* Program constants *)

maxMisses == 2

levelTimeLimit == 20

levelUpCountdownStart == 3

zones == <<"LEFT", "CENTER", "RIGHT">>

itemTypes ==
    <<[type |-> "bomb",   points |-> 0,   isBomb |-> TRUE],
      [type |-> "apple",  points |-> 100, isBomb |-> FALSE],
      [type |-> "pear",   points |-> 150, isBomb |-> FALSE],
      [type |-> "orange", points |-> 200, isBomb |-> FALSE]>>

baseDropTime == 20

decreasePerLevel == 2

minDropTime == 6

updatesPerSecond == 60

ProgressOne == 30240

CatchLine == (85 * ProgressOne) \div 100

\* the pose vocabulary of moveBasket: left, front, right, and a word outside it
Poses == {"left", "front", "right", "other"}

\* any string can be passed: the same, and a word that names a property every
\* object literal inherits from Object.prototype
Words == Poses \cup {"constructor"}

\* poseToZone[pose], a property lookup on an object literal: its own three
\* keys, then what it inherits (constructor is the function Object), then
\* undefined
poseToZone(pose) ==
    CASE pose = "left"        -> "LEFT"
      [] pose = "front"       -> "CENTER"
      [] pose = "right"       -> "RIGHT"
      [] pose = "constructor" -> "function Object"
      [] OTHER                -> "undefined"

BombReason == "bomb"

MissReason == "misses"

IdPool == 1 .. MaxIds

Max(a, b) == IF a >= b THEN a ELSE b

----------------------------------------------------------------------------
(* Numbers: a JavaScript Number is an IEEE 754 double.  A double is held as
   a whole number of units of 2^-FractionBits, written in limbs of LimbBits
   bits, lowest first: FractionLimbs limbs of fraction, Limbs limbs in all.
   Every operation computes the exact result and rounds it to MantissaBits
   significant bits, ties to even.  An operation works its operands out
   once, as the elements of a set, before it reads their limbs. *)

MantissaBits == 53

LimbBits == 12

FractionLimbs == 5

Limbs == 7

FractionBits == FractionLimbs * LimbBits

RECURSIVE Pow2(_)
Pow2(n) == IF n = 0 THEN 1 ELSE 2 * Pow2(n - 1)

Base == Pow2(LimbBits)

\* the whole number n, n < Base * Base
FromInt(n) ==
    [i \in 1 .. Limbs |->
        IF i = FractionLimbs + 1 THEN n % Base
        ELSE IF i = FractionLimbs + 2 THEN n \div Base
        ELSE 0]

\* the whole part of a: what window.setInterval makes of a delay
WholePart(a) == a[FractionLimbs + 1] + Base * a[FractionLimbs + 2]

\* limbs i and up of a + b, a - b and a * k, k a whole number below Base
RECURSIVE AddLimbs(_, _, _, _)
AddLimbs(a, b, i, carry) ==
    IF i > Len(a) THEN <<>>
    ELSE LET sum == a[i] + b[i] + carry
         IN  <<sum % Base>> \o AddLimbs(a, b, i + 1, sum \div Base)

RECURSIVE SubLimbs(_, _, _, _)
SubLimbs(a, b, i, borrow) ==
    IF i > Len(a) THEN <<>>
    ELSE LET diff == a[i] - b[i] - borrow
         IN  <<IF diff < 0 THEN diff + Base ELSE diff>>
                \o SubLimbs(a, b, i + 1, IF diff < 0 THEN 1 ELSE 0)

RECURSIVE MulLimbs(_, _, _, _)
MulLimbs(a, k, i, carry) ==
    IF i > Len(a) THEN <<>>
    ELSE LET prod == a[i] * k + carry
         IN  <<prod % Base>> \o MulLimbs(a, k, i + 1, prod \div Base)

\* the sum of a[i] * b[k + 1 - i] over the limbs i and up of a
RECURSIVE ColumnSum(_, _, _, _)
ColumnSum(a, b, k, i) ==
    IF i > Len(a) THEN 0
    ELSE (IF k + 1 - i >= 1 /\ k + 1 - i <= Len(b) THEN a[i] * b[k + 1 - i] ELSE 0)
            + ColumnSum(a, b, k, i + 1)

\* limbs k and up of a * b, in units of 2^-(2 * FractionBits)
RECURSIVE TimesLimbs(_, _, _, _)
TimesLimbs(a, b, k, carry) ==
    IF k > Len(a) + Len(b) THEN <<>>
    ELSE LET sum == ColumnSum(a, b, k, 1) + carry
         IN  <<sum % Base>> \o TimesLimbs(a, b, k + 1, sum \div Base)

\* quotient and remainder of the limbs 1 .. i of a divided by d, highest first
RECURSIVE DivLimbs(_, _, _, _)
DivLimbs(a, d, i, rem) ==
    IF i = 0 THEN [q |-> <<>>, rem |-> rem]
    ELSE LET r     == rem * Base + a[i]
             lower == DivLimbs(a, d, i - 1, r % d)
         IN  [q |-> Append(lower.q, r \div d), rem |-> lower.rem]

LessThan(a, b) ==
    \E i \in 1 .. Len(a) :
        a[i] < b[i] /\ \A j \in (i + 1) .. Len(a) : a[j] = b[j]

\* bit i of a, the lowest being bit 1
BitAt(a, i) == (a[(i - 1) \div LimbBits + 1] \div Pow2((i - 1) % LimbBits)) % 2

\* the number of significant bits of a
TopBit(a) ==
    IF \E i \in 1 .. Len(a) : a[i] # 0
    THEN LET top == CHOOSE i \in 1 .. Len(a) :
                        a[i] # 0 /\ \A j \in (i + 1) .. Len(a) : a[j] = 0
         IN  (top - 1) * LimbBits
                + (CHOOSE n \in 1 .. LimbBits :
                        Pow2(n) > a[top] /\ Pow2(n - 1) <= a[top])
    ELSE 0

\* round the limbs a to nearest, ties to even; inexact says that the exact
\* value is above a
RoundLimbs(a, inexact) ==
    LET r == TopBit(a) - MantissaBits
    IN  IF r <= 0 THEN a
        ELSE LET below == inexact \/ \E i \in 1 .. (r - 1) : BitAt(a, i) = 1
                 up    == BitAt(a, r) = 1 /\ (below \/ BitAt(a, r + 1) = 1)
                 trunc == [j \in 1 .. Len(a) |->
                              IF j * LimbBits <= r THEN 0
                              ELSE IF (j - 1) * LimbBits >= r THEN a[j]
                              ELSE a[j] - (a[j] % Pow2(r - (j - 1) * LimbBits))]
                 unit  == [j \in 1 .. Len(a) |->
                              IF up /\ j - 1 = r \div LimbBits
                              THEN Pow2(r % LimbBits) ELSE 0]
             IN  AddLimbs(trunc, unit, 1, 0)

RoundToDouble(a, inexact) ==
    CHOOSE r \in {RoundLimbs(x, inexact) : x \in {a}} : TRUE

\* the double a decimal literal of the source denotes, given in tenths
\* (2.0 is 20, 0.2 is 2, 0.6 is 6)
Double(tenths) ==
    CHOOSE r \in {RoundToDouble(qr.q, qr.rem # 0) :
                     qr \in {DivLimbs(FromInt(tenths), 10, Limbs, 0)}} : TRUE

\* a + b and a - b (a >= b) for doubles
Plus(a, b) ==
    CHOOSE r \in {RoundToDouble(AddLimbs(x, y, 1, 0), FALSE) :
                     x \in {a}, y \in {b}} : TRUE

Minus(a, b) ==
    CHOOSE r \in {RoundToDouble(SubLimbs(x, y, 1, 0), FALSE) :
                     x \in {a}, y \in {b}} : TRUE

\* a * k for a double a and a whole number k below Base
TimesInt(a, k) ==
    CHOOSE r \in {RoundToDouble(MulLimbs(x, k, 1, 0), FALSE) : x \in {a}} : TRUE

\* a * b for doubles: the exact product, rounded, in units of 2^-FractionBits
Times(a, b) ==
    CHOOSE r \in {SubSeq(product, FractionLimbs + 1, FractionLimbs + Limbs) :
                     product \in {RoundToDouble(TimesLimbs(x, y, 1, 0), FALSE) :
                                     x \in {a}, y \in {b}}} : TRUE

\* Math.max(a, b)
MaxOf(a, b) ==
    CHOOSE r \in {IF LessThan(x, y) THEN y ELSE x : x \in {a}, y \in {b}} : TRUE

\* the whole number nearest to ten times the double a
TenthsOf(a) ==
    LET half == [i \in 1 .. Limbs |->
                    IF i = FractionLimbs THEN Base \div 2 ELSE 0]
    IN  CHOOSE n \in {WholePart(AddLimbs(MulLimbs(x, 10, 1, 0), half, 1, 0)) :
                         x \in {a}} : TRUE

----------------------------------------------------------------------------
(* The engine as a record *)

Cur ==
    [isGameActive |-> isGameActive, score |-> score, level |-> level,
     missCount |-> missCount, basketPosition |-> basketPosition,
     items |-> items, levelTimeRemaining |-> levelTimeRemaining,
     isLevelUpPause |-> isLevelUpPause, levelUpCountdown |-> levelUpCountdown,
     isLevelEnding |-> isLevelEnding, levelTimer |-> levelTimer,
     itemSpawnTimer |-> itemSpawnTimer, itemUpdateTimer |-> itemUpdateTimer,
     levelUpCountdownTimer |-> levelUpCountdownTimer,
     onScoreChange |-> onScoreChange, onMissChange |-> onMissChange,
     onLevelChange |-> onLevelChange, onGameEnd |-> onGameEnd,
     onBasketMove |-> onBasketMove,
     spawnInterval |-> spawnInterval, orphans |-> orphans,
     pending |-> pending, stale |-> stale, emitted |-> <<>>,
     gameOvers |-> gameOvers, started |-> started,
     random |-> 0]   \* what Math.random() returns to this handler, in tenths

Notification(cb, n1, n2, tag) == [cb |-> cb, n1 |-> n1, n2 |-> n2, tag |-> tag]

\* if (this[n.cb]) this[n.cb](...): a callback field holds null or a function
Emit(s, n) == IF s[n.cb] # "null" THEN [s EXCEPT !.emitted = Append(@, n)] ELSE s

\* window.alert(...), which asks no field
alert(s, n) == [s EXCEPT !.emitted = Append(@, n)]

Callbacks == {"null", "function"}

setScoreChangeCallback(s, callback) == [s EXCEPT !.onScoreChange = callback]

setMissChangeCallback(s, callback) == [s EXCEPT !.onMissChange = callback]

setLevelChangeCallback(s, callback) == [s EXCEPT !.onLevelChange = callback]

setGameEndCallback(s, callback) == [s EXCEPT !.onGameEnd = callback]

setBasketMoveCallback(s, callback) == [s EXCEPT !.onBasketMove = callback]

\* setupGameCallbacks() of the page: a function for each of the five
setupGameCallbacks(s) ==
    setBasketMoveCallback(
        setGameEndCallback(
            setLevelChangeCallback(
                setMissChangeCallback(
                    setScoreChangeCallback(s, "function"), "function"),
                "function"), "function"), "function")

\* window.setInterval stored into field f: a running interval the field named
\* before is left running with no handle
setInterval(s, f) ==
    [s EXCEPT ![f] = "live",
              !.orphans = IF s[f] = "live" THEN @ \cup {f} ELSE @]

\* window.clearInterval(this[f]): cancels the interval the field names
clearInterval(s, f) == [s EXCEPT ![f] = IF @ = "live" THEN "cleared" ELSE @]

clearTimers(s) ==
    LET clr(t, f) == IF t[f] # "null"
                     THEN [clearInterval(t, f) EXCEPT ![f] = "null"]
                     ELSE t
    IN  clr(clr(clr(clr(s, "levelTimer"), "itemSpawnTimer"),
                "itemUpdateTimer"), "levelUpCountdownTimer")

stop(s) ==
    LET a == clearTimers([s EXCEPT !.isGameActive = FALSE])
    IN  Emit(a, Notification("onGameEnd", a.score, a.level, ""))

gameOver(s, reason) ==
    LET a == stop(s)
    IN  alert([a EXCEPT !.gameOvers = @ + 1],
              Notification("alert", a.score, a.level, reason))

startLevelTimer(s) == setInterval(s, "levelTimer")

startLevelUpCountdown(s) == setInterval(s, "levelUpCountdownTimer")

pauseForLevelUp(s) ==
    LET a == [s EXCEPT !.isLevelUpPause = TRUE,
                       !.levelUpCountdown = levelUpCountdownStart]
        b == clearInterval(clearInterval(a, "levelTimer"), "itemSpawnTimer")
    IN  startLevelUpCountdown(b)

nextLevel(s) ==
    pauseForLevelUp([s EXCEPT !.level = @ + 1,
                              !.levelTimeRemaining = levelTimeLimit,
                              !.isLevelEnding = FALSE])

\* the level ends at once, items in the air or not
startLevelEnding_NoWait(s) ==
    LET a == [s EXCEPT !.isLevelEnding = TRUE]
        b == clearInterval(clearInterval(a, "levelTimer"), "itemSpawnTimer")
    IN  nextLevel(b)

startLevelEnding(s) ==
    LET a == [s EXCEPT !.isLevelEnding = TRUE]
        b == clearInterval(clearInterval(a, "levelTimer"), "itemSpawnTimer")
    IN  IF Len(b.items) = 0 THEN nextLevel(b) ELSE b

\* in tenths of a second
getDropTime(s) ==
    Max(baseDropTime - (s.level - 1) * decreasePerLevel, minDropTime)

\* the same in doubles, as the source computes it:
\* Math.max(baseDropTime - (level - 1) * decreasePerLevel, minDropTime)
getDropTimeAsDouble(s) ==
    CHOOSE r \in
        {IF LessThan(Double(baseDropTime), product)
         THEN Double(minDropTime)
         ELSE MaxOf(Minus(Double(baseDropTime), product), Double(minDropTime)) :
            product \in {TimesInt(Double(decreasePerLevel), s.level - 1)}} : TRUE

\* (minInterval + Math.random() * (maxInterval - minInterval)) * 1000 with
\* minInterval = dropTime * 0.6 and maxInterval = dropTime * 0.8, in doubles,
\* as the whole number of milliseconds window.setInterval makes of it;
\* s.random is Math.random() in tenths
getItemSpawnInterval(s) ==
    CHOOSE ms \in
        {WholePart(TimesInt(Plus(minInterval,
                                 Times(Double(s.random),
                                       Minus(maxInterval, minInterval))),
                            1000)) :
            minInterval \in {Times(getDropTimeAsDouble(s), Double(6))},
            maxInterval \in {Times(getDropTimeAsDouble(s), Double(8))}} : TRUE

\* Math.random() in tenths
Tenths == 0 .. 9

\* getItemSpawnInterval at every level up to MaxDropLevel and every draw,
\* worked out once
SpawnIntervals ==
    {<<l, u, getItemSpawnInterval([level |-> l, random |-> u])>> :
        l \in 1 .. MaxDropLevel, u \in Tenths}

\* this.getItemSpawnInterval() as a handler calls it
SpawnIntervalOf(s) ==
    IF s.level \in 1 .. MaxDropLevel /\ s.random \in Tenths
    THEN (CHOOSE t \in SpawnIntervals : t[1] = s.level /\ t[2] = s.random)[3]
    ELSE getItemSpawnInterval(s)

\* the interval is drawn here, once for every firing of the new interval
startItemSpawner(s) ==
    setInterval([s EXCEPT !.spawnInterval = SpawnIntervalOf(s)],
                "itemSpawnTimer")

restartItemSpawner(s) == startItemSpawner(clearInterval(s, "itemSpawnTimer"))

startItemUpdater(s) == setInterval(s, "itemUpdateTimer")

resumeAfterLevelUp(s) ==
    LET a == [s EXCEPT !.isLevelUpPause = FALSE]
        b == restartItemSpawner(startLevelTimer(a))
    IN  Emit(b, Notification("onLevelChange", b.level, 0, ""))

\* the reset keeps the collection of the run before
start_KeepItems(s) ==
    LET a == [s EXCEPT !.isGameActive = TRUE, !.score = 0, !.level = 1,
                       !.missCount = 0, !.basketPosition = "CENTER",
                       !.levelTimeRemaining = levelTimeLimit]
    IN  startItemUpdater(startItemSpawner(startLevelTimer(a)))

\* the reset forgets the miss count
start_KeepMisses(s) ==
    LET a == [s EXCEPT !.isGameActive = TRUE, !.score = 0, !.level = 1,
                       !.basketPosition = "CENTER",
                       !.items = <<>>,
                       !.levelTimeRemaining = levelTimeLimit]
    IN  startItemUpdater(startItemSpawner(startLevelTimer(a)))

start(s) ==
    LET a == [s EXCEPT !.isGameActive = TRUE, !.score = 0, !.level = 1,
                       !.missCount = 0, !.basketPosition = "CENTER",
                       !.items = <<>>,
                       !.levelTimeRemaining = levelTimeLimit]
    IN  startItemUpdater(startItemSpawner(startLevelTimer(a)))

\* the callback of the level countdown interval
levelTimerTick(s) ==
    LET a == [s EXCEPT !.levelTimeRemaining = @ - 1]
    IN  IF a.levelTimeRemaining <= 0 THEN startLevelEnding(a) ELSE a

\* the callback of the level-up countdown interval
levelUpCountdownTick(s) ==
    LET a == [s EXCEPT !.levelUpCountdown = @ - 1]
    IN  IF a.levelUpCountdown <= 0
        THEN resumeAfterLevelUp(clearInterval(a, "levelUpCountdownTimer"))
        ELSE a

\* an id no item and no waiting removal uses: a new object
FreshId(s) ==
    CHOOSE i \in IdPool :
        /\ i \notin s.pending
        /\ \A k \in 1 .. Len(s.items) : s.items[k].id # i
        /\ \A j \in IdPool :
              (j \notin s.pending /\ \A k \in 1 .. Len(s.items) : s.items[k].id # j)
                 => i <= j

HasFreshId(s) ==
    \E i \in IdPool :
        i \notin s.pending /\ \A k \in 1 .. Len(s.items) : s.items[k].id # i

spawnItem(s, zone, itemType) ==
    LET item == [id |-> FreshId(s), zone |-> zone, type |-> itemType.type,
                 points |-> itemType.points, isBomb |-> itemType.isBomb,
                 progress |-> 0, dropTime |-> getDropTime(s), caught |-> FALSE]
    IN  [s EXCEPT !.items = Append(@, item)]

\* the callback of the spawner interval
spawnerTick(s, zone, itemType) ==
    IF s.isGameActive /\ ~s.isLevelEnding THEN spawnItem(s, zone, itemType) ELSE s

missItem(s) ==
    LET a == [s EXCEPT !.missCount = @ + 1]
        b == Emit(a, Notification("onMissChange", a.missCount, 0, ""))
    IN  IF b.missCount = 1 THEN b
        ELSE IF b.missCount >= maxMisses THEN gameOver(b, MissReason)
        ELSE b

\* a bomb in the basket only scores its 0 points
catchItem_BombScores(s, item) ==
    LET a == [s EXCEPT !.score = @ + item.points]
    IN  Emit(a, Notification("onScoreChange", a.score, 0, ""))

\* every fruit is worth the points of the first
catchItem_FlatScore(s, item) ==
    IF item.isBomb
    THEN gameOver(s, BombReason)
    ELSE LET a == [s EXCEPT !.score = @ + itemTypes[2].points]
         IN  Emit(a, Notification("onScoreChange", a.score, 0, ""))

catchItem(s, item) ==
    IF item.isBomb
    THEN gameOver(s, BombReason)
    ELSE LET a == [s EXCEPT !.score = @ + item.points]
         IN  Emit(a, Notification("onScoreChange", a.score, 0, ""))

\* a bomb that falls beside the basket counts as a miss
handleItemReachedBasket_BombCounts(s, item) ==
    IF item.zone = s.basketPosition
    THEN catchItem(s, item)
    ELSE missItem(s)

handleItemReachedBasket(s, item) ==
    IF item.zone = s.basketPosition
    THEN catchItem(s, item)
    ELSE IF ~item.isBomb THEN missItem(s) ELSE s

\* deltaTime / item.dropTime in progress units
ProgressStep(item) == (ProgressOne * 10) \div (updatesPerSecond * item.dropTime)

\* progress is a double: 102 additions of (1/60)/2.0 give 0.8499999999999993,
\* one rounding short of 0.85, so an item of drop time 2.0 crosses the line on
\* its 103rd step; for every other drop time the double sum and the exact sum
\* cross on the same step
doubleShortfall(item) == IF item.dropTime = baseDropTime THEN 1 ELSE 0

\* the forEach advances and evaluates caught items too
updateItem_NoCaughtCheck(s, i) ==
    LET item == s.items[i]
        p    == item.progress + ProgressStep(item)
    IN  IF p >= CatchLine + doubleShortfall(item)
        THEN LET done == [item EXCEPT !.caught = TRUE, !.progress = CatchLine]
                 a    == [s EXCEPT !.items[i] = done]
                 b    == handleItemReachedBasket(a, done)
             IN  [b EXCEPT !.pending = @ \cup {item.id}]
        ELSE [s EXCEPT !.items[i].progress = p]

\* the body of the forEach of the updater, for the item at index i
updateItem(s, i) ==
    LET item == s.items[i]
        p    == item.progress + ProgressStep(item)
    IN  IF item.caught THEN s
        ELSE IF p >= CatchLine + doubleShortfall(item)
        THEN LET done == [item EXCEPT !.caught = TRUE, !.progress = CatchLine]
                 a    == [s EXCEPT !.items[i] = done]
                 b    == handleItemReachedBasket(a, done)
             IN  [b EXCEPT !.pending = @ \cup {item.id}]
        ELSE [s EXCEPT !.items[i].progress = p]

RECURSIVE forEachItem(_, _)
forEachItem(s, i) ==
    IF i > Len(s.items) THEN s ELSE forEachItem(updateItem(s, i), i + 1)

\* the callback of the updater interval
itemUpdaterTick(s) ==
    IF ~s.isGameActive \/ s.isLevelUpPause THEN s ELSE forEachItem(s, 1)

IndexOf(seq, id) ==
    IF \E k \in 1 .. Len(seq) : seq[k].id = id
    THEN CHOOSE k \in 1 .. Len(seq) : seq[k].id = id
    ELSE 0

Splice(seq, k) == [j \in 1 .. (Len(seq) - 1) |-> IF j < k THEN seq[j] ELSE seq[j + 1]]

\* the setTimeout callback that removes the caught item id
removeCaughtItem(s, id) ==
    LET fired == [s EXCEPT !.pending = @ \ {id}]
        k     == IndexOf(fired.items, id)
    IN  IF k > 0
        THEN LET a == [fired EXCEPT !.items = Splice(@, k)]
             IN  IF a.isLevelEnding /\ Len(a.items) = 0 THEN nextLevel(a) ELSE a
        ELSE fired

\* the basket follows the pose whether the game is active or not
moveBasket_NoGuard(s, pose) ==
    LET newPosition == poseToZone(pose)
    IN  IF newPosition # "undefined" /\ newPosition # s.basketPosition
        THEN Emit([s EXCEPT !.basketPosition = newPosition],
                  Notification("onBasketMove", 0, 0, newPosition))
        ELSE s

moveBasket(s, pose) ==
    IF ~s.isGameActive THEN s
    ELSE LET newPosition == poseToZone(pose)
         IN  IF newPosition # "undefined" /\ newPosition # s.basketPosition
             THEN Emit([s EXCEPT !.basketPosition = newPosition],
                       Notification("onBasketMove", 0, 0, newPosition))
             ELSE s

----------------------------------------------------------------------------
(* The state machine *)

Running(f) == Cur[f] = "live" \/ f \in orphans

WithinBounds(r) ==
    /\ r.level <= MaxLevel \/ r.level <= level
    /\ r.levelTimeRemaining >= 0 - MaxOverrun
    /\ r.levelUpCountdown >= 0 - MaxOverrun
    /\ Cardinality(r.orphans) <= MaxOrphans

Commit(r, op) ==
    /\ WithinBounds(r)
    /\ isGameActive' = r.isGameActive
    /\ score' = r.score
    /\ level' = r.level
    /\ missCount' = r.missCount
    /\ basketPosition' = r.basketPosition
    /\ items' = r.items
    /\ levelTimeRemaining' = r.levelTimeRemaining
    /\ isLevelUpPause' = r.isLevelUpPause
    /\ levelUpCountdown' = r.levelUpCountdown
    /\ isLevelEnding' = r.isLevelEnding
    /\ levelTimer' = r.levelTimer
    /\ itemSpawnTimer' = r.itemSpawnTimer
    /\ itemUpdateTimer' = r.itemUpdateTimer
    /\ levelUpCountdownTimer' = r.levelUpCountdownTimer
    /\ onScoreChange' = r.onScoreChange
    /\ onMissChange' = r.onMissChange
    /\ onLevelChange' = r.onLevelChange
    /\ onGameEnd' = r.onGameEnd
    /\ onBasketMove' = r.onBasketMove
    /\ spawnInterval' = r.spawnInterval
    /\ orphans' = r.orphans
    /\ pending' = r.pending
    /\ stale' = r.stale
    /\ emitted' = r.emitted
    /\ gameOvers' = r.gameOvers
    /\ started' = r.started
    /\ lastOp' = op

Init ==
    /\ isGameActive = FALSE
    /\ score = 0
    /\ level = 1
    /\ missCount = 0
    /\ basketPosition = "CENTER"
    /\ items = <<>>
    /\ levelTimeRemaining = levelTimeLimit
    /\ isLevelUpPause = FALSE
    /\ levelUpCountdown = levelUpCountdownStart
    /\ isLevelEnding = FALSE
    /\ levelTimer = "null"
    /\ itemSpawnTimer = "null"
    /\ itemUpdateTimer = "null"
    /\ levelUpCountdownTimer = "null"
    /\ onScoreChange = "null"
    /\ onMissChange = "null"
    /\ onLevelChange = "null"
    /\ onGameEnd = "null"
    /\ onBasketMove = "null"
    /\ spawnInterval = 0
    /\ orphans = {}
    /\ pending = {}
    /\ stale = {}
    /\ emitted = <<>>
    /\ gameOvers = 0
    /\ started = FALSE
    /\ lastOp = "new"

\* start() on the engine s
StartIn(s, maxRandom) ==
    \E u \in 0 .. maxRandom :
        Commit([start([s EXCEPT !.random = u])
                   EXCEPT !.gameOvers = 0, !.started = TRUE, !.stale = pending],
               "start")

Start == StartIn(Cur, LeanMaxRandom)

Stop == Commit(stop(Cur), "stop")

MoveBasket == \E pose \in Poses : Commit(moveBasket(Cur, pose), "moveBasket")

SetScoreChangeCallback ==
    \E callback \in Callbacks :
        Commit(setScoreChangeCallback(Cur, callback), "setScoreChangeCallback")

SetMissChangeCallback ==
    \E callback \in Callbacks :
        Commit(setMissChangeCallback(Cur, callback), "setMissChangeCallback")

SetLevelChangeCallback ==
    \E callback \in Callbacks :
        Commit(setLevelChangeCallback(Cur, callback), "setLevelChangeCallback")

SetGameEndCallback ==
    \E callback \in Callbacks :
        Commit(setGameEndCallback(Cur, callback), "setGameEndCallback")

SetBasketMoveCallback ==
    \E callback \in Callbacks :
        Commit(setBasketMoveCallback(Cur, callback), "setBasketMoveCallback")

\* setupGameCallbacks() called by itself
SetupGameCallbacks == Commit(setupGameCallbacks(Cur), "setupGameCallbacks")

\* one firing of the level countdown interval
LevelTimerTick ==
    /\ Running("levelTimer")
    /\ Commit(levelTimerTick(Cur), "levelTimer")

\* the points the fruit in the air can still add to the score
RECURSIVE PointsInTheAir(_)
PointsInTheAir(seq) ==
    IF seq = <<>> THEN 0
    ELSE (IF Head(seq).caught THEN 0 ELSE Head(seq).points) + PointsInTheAir(Tail(seq))

\* one firing of the spawner interval: Math.random() picks the zone and the type
SpawnerTickIn(maxItems, maxZone, maxType, maxScore) ==
    /\ Running("itemSpawnTimer")
    /\ \E z \in 1 .. maxZone, t \in 1 .. maxType :
          /\ (isGameActive /\ ~isLevelEnding) =>
                /\ HasFreshId(Cur)
                /\ Len(items) < maxItems
                /\ score + PointsInTheAir(items) + itemTypes[t].points <= maxScore
          /\ Commit(spawnerTick(Cur, zones[z], itemTypes[t]), "spawner")

SpawnerTick == SpawnerTickIn(MaxItems, MaxZoneIndex, MaxTypeIndex, MaxScore)

\* one firing of the updater interval
ItemUpdaterTick ==
    /\ Running("itemUpdateTimer")
    /\ Commit(itemUpdaterTick(Cur), "updater")

\* one firing of the level-up countdown interval
LevelUpCountdownTickIn(maxRandom) ==
    /\ Running("levelUpCountdownTimer")
    /\ \E u \in 0 .. maxRandom :
          Commit(levelUpCountdownTick([Cur EXCEPT !.random = u]), "countdown")

LevelUpCountdownTick == LevelUpCountdownTickIn(LeanMaxRandom)

\* a timeout set before the last start() belongs to the run before it
RemovalTimeout ==
    \E id \in pending :
        Commit([removeCaughtItem(Cur, id) EXCEPT !.stale = @ \ {id}],
               IF id \in stale THEN "staleRemoval" ELSE "removal")

\* The engine under any caller: every command and every callback at any time.
Next ==
    \/ SetScoreChangeCallback
    \/ SetMissChangeCallback
    \/ SetLevelChangeCallback
    \/ SetGameEndCallback
    \/ SetBasketMoveCallback
    \/ Start
    \/ Stop
    \/ MoveBasket
    \/ LevelTimerTick
    \/ SpawnerTick
    \/ ItemUpdaterTick
    \/ LevelUpCountdownTick
    \/ RemovalTimeout

Spec == Init /\ [][Next]_vars

\* The page: the continuation of init() registers the five callbacks and
\* starts the engine, once; the stop button and the pose callback reach the
\* engine only while the game is active.
PageStart == ~started /\ StartIn(setupGameCallbacks(Cur), LeanMaxRandom)

PageStop == isGameActive /\ Stop

PageMoveBasket == isGameActive /\ MoveBasket

NextPage ==
    \/ PageStart
    \/ PageStop
    \/ PageMoveBasket
    \/ LevelTimerTick
    \/ SpawnerTick
    \/ ItemUpdaterTick
    \/ LevelUpCountdownTick
    \/ RemovalTimeout

SpecPage == Init /\ [][NextPage]_vars

\* A run looked at from the moment it enters a level: start() for level 1,
\* resumeAfterLevelUp() for the others, nothing caught or missed so far.
InitAtLevel ==
    /\ level \in 1 .. MaxDropLevel
    /\ isGameActive = TRUE
    /\ score = 0
    /\ missCount = 0
    /\ basketPosition = "CENTER"
    /\ items = <<>>
    /\ levelTimeRemaining = levelTimeLimit
    /\ isLevelUpPause = FALSE
    /\ levelUpCountdown = (IF level = 1 THEN levelUpCountdownStart ELSE 0)
    /\ isLevelEnding = FALSE
    /\ levelTimer = "live"
    /\ itemSpawnTimer = "live"
    /\ itemUpdateTimer = "live"
    /\ levelUpCountdownTimer = (IF level = 1 THEN "null" ELSE "cleared")
    /\ onScoreChange = "function"
    /\ onMissChange = "function"
    /\ onLevelChange = "function"
    /\ onGameEnd = "function"
    /\ onBasketMove = "function"
    /\ spawnInterval = getItemSpawnInterval([level |-> level, random |-> 0])
    /\ orphans = {}
    /\ pending = {}
    /\ stale = {}
    /\ emitted = (IF level = 1 THEN <<>>
                  ELSE <<Notification("onLevelChange", level, 0, "")>>)
    /\ gameOvers = 0
    /\ started = TRUE
    /\ lastOp = (IF level = 1 THEN "start" ELSE "countdown")

\* The items of a level: two at once, of three types, before the level
\* countdown fires again.
ItemsSpawnerTick ==
    SpawnerTickIn(ItemsMaxItems, MaxZoneIndex, ItemsMaxTypeIndex, ItemsMaxScore)

NextItems ==
    \/ PageStop
    \/ PageMoveBasket
    \/ ItemsSpawnerTick
    \/ ItemUpdaterTick
    \/ RemovalTimeout

InitItems == level = ItemsLevel /\ InitAtLevel

SpecItems == InitItems /\ [][NextItems]_vars

\* Every level, one item at a time.
NextLevels ==
    \/ PageStop
    \/ PageMoveBasket
    \/ SpawnerTick
    \/ ItemUpdaterTick
    \/ RemovalTimeout

SpecLevels == InitAtLevel /\ [][NextLevels]_vars

\* The commands of a collaborator, with any word and any callback, before a
\* timer fires.
AnyMoveBasket == \E pose \in Words : Commit(moveBasket(Cur, pose), "moveBasket")

NextBasket ==
    \/ SetScoreChangeCallback
    \/ SetMissChangeCallback
    \/ SetLevelChangeCallback
    \/ SetGameEndCallback
    \/ SetBasketMoveCallback
    \/ Start
    \/ Stop
    \/ AnyMoveBasket

SpecBasket == Init /\ [][NextBasket]_vars

\* Runs one over the other on one engine, with the callbacks of the page or
\* with none: start() and stop() at any time, the items of the first level
\* before its countdown fires.
NextRuns ==
    \/ SetupGameCallbacks
    \/ Start
    \/ Stop
    \/ MoveBasket
    \/ SpawnerTick
    \/ ItemUpdaterTick
    \/ RemovalTimeout

SpecRuns == Init /\ [][NextRuns]_vars

\* The same with the level countdown and the level-up countdown, before the
\* updater fires: the items stay where they are spawned.
NextRestart ==
    \/ SetupGameCallbacks
    \/ Start
    \/ Stop
    \/ LevelTimerTick
    \/ SpawnerTick
    \/ LevelUpCountdownTick

SpecRestart == Init /\ [][NextRestart]_vars

\* Runs one after the other on one engine, with the callbacks of the page or
\* with none: stop() called during a level-up pause, start() called again on
\* the stopped engine, bombs falling in the first zone.  The browser fires
\* every running interval and every pending timeout again and again: each
\* callback is weakly fair.
FairStart == ~isGameActive /\ Start

FairStop == isGameActive /\ isLevelUpPause /\ Stop

FairSpawnerTick ==
    SpawnerTickIn(MaxItems, FairZoneIndex, FairTypeIndex, FairMaxScore)

NextFair ==
    \/ SetupGameCallbacks
    \/ FairStart
    \/ FairStop
    \/ LevelTimerTick
    \/ FairSpawnerTick
    \/ ItemUpdaterTick
    \/ LevelUpCountdownTick
    \/ RemovalTimeout

SpecFair ==
    /\ Init
    /\ [][NextFair]_vars
    /\ WF_vars(LevelTimerTick)
    /\ WF_vars(FairSpawnerTick)
    /\ WF_vars(ItemUpdaterTick)
    /\ WF_vars(LevelUpCountdownTick)
    /\ WF_vars(RemovalTimeout)

----------------------------------------------------------------------------
(* Claims *)

TimerFields == {"levelTimer", "itemSpawnTimer", "itemUpdateTimer", "levelUpCountdownTimer"}

\* C1: while an item is in the collection the level changes in one step only:
\* the removal that empties the collection during level ending, which raises
\* the level by exactly 1 and resets levelTimeRemaining to 20; every other
\* step of the run (the level countdown reaching zero included) leaves the
\* level as it is.
LevelWaitsForItems ==
    [][(items # <<>> /\ lastOp' # "start") =>
          IF isLevelEnding /\ items' = <<>>
          THEN level' = level + 1 /\ levelTimeRemaining' = levelTimeLimit
          ELSE level' = level]_vars

\* the removal of the last item has just ended level 1
LevelUpAfterLastRemoval ==
    /\ lastOp = "removal"
    /\ isGameActive
    /\ isLevelUpPause
    /\ ~isLevelEnding
    /\ level = 2
    /\ levelTimeRemaining = levelTimeLimit
    /\ items = <<>>

\* C2: missCount is at most maxMisses in every reachable state.
MissCountWithinLimit == missCount <= maxMisses

\* C3: within one run gameOver runs at most once.
GameOverOnce == gameOvers <= 1

\* C4: once the game is over nothing is evaluated any more: in the handler
\* that ends the game no score-changed or miss-changed notification follows
\* the game-ended notification, and until the next start() score, missCount
\* and the items' progress stay as they are and no item is added.
FrozenAfterGameOver ==
    [][/\ \A i, j \in 1 .. Len(emitted') :
             (i < j /\ emitted'[i].cb = "onGameEnd")
                => emitted'[j].cb \notin {"onScoreChange", "onMissChange"}
       /\ (gameOvers > 0 /\ lastOp' # "start") =>
             /\ score' = score
             /\ missCount' = missCount
             /\ Len(items') <= Len(items)
             /\ \A k \in 1 .. Len(items') :
                   \E m \in 1 .. Len(items) : items[m] = items'[k]]_vars

\* C5: while the engine is inactive none of the periodic processes is running.
StoppedMeansNoTimers == ~isGameActive => \A f \in TimerFields : ~Running(f)

\* C6: a removal callback that fires while the engine is inactive changes
\* neither the item collection nor the level, levelTimeRemaining, the phase
\* flags or the timers.
InactiveRemovalIsNoOp ==
    [][(lastOp' = "removal" /\ ~isGameActive) =>
          UNCHANGED <<items, level, levelTimeRemaining, isLevelEnding,
                      isLevelUpPause, levelTimer, itemSpawnTimer,
                      itemUpdateTimer, levelUpCountdownTimer, orphans>>]_vars

\* C7: right after start() score = 0, level = 1, missCount = 0, basketZone =
\* CENTER, the item collection is empty, levelTimeRemaining = 20 and the
\* engine is active, whatever the state start() was called in.
StartResets ==
    lastOp = "start" =>
        /\ score = 0
        /\ level = 1
        /\ missCount = 0
        /\ basketPosition = "CENTER"
        /\ items = <<>>
        /\ levelTimeRemaining = levelTimeLimit
        /\ isGameActive

\* start() has just run on an engine whose last run left a caught item behind
StartedOverOldRun == lastOp = "start" /\ pending # {}

\* C8: right after start() the phase is RUNNING: isLevelEnding and
\* isLevelUpPause are both false.
StartEntersRunning == lastOp = "start" => (~isLevelEnding /\ ~isLevelUpPause)

\* C9: right after start(), also one called while the engine is active, one
\* level countdown, one spawner and one updater are running and no other
\* interval is; after a later stop() none is running.
OneTimerOfEachKind ==
    /\ lastOp = "start" =>
          /\ orphans = {}
          /\ levelTimer = "live" /\ itemSpawnTimer = "live" /\ itemUpdateTimer = "live"
    /\ lastOp = "stop" => \A f \in TimerFields : ~Running(f)

\* C10: an item is added to the collection only while the engine is active
\* and neither isLevelEnding nor isLevelUpPause is set.
SpawnOnlyWhileRunning ==
    [][Len(items') > Len(items) =>
          (isGameActive /\ ~isLevelEnding /\ ~isLevelUpPause)]_vars

HasNotification(seq, cb) == \E k \in 1 .. Len(seq) : seq[k].cb = cb

\* what one call of the callback field cb comes to: the notification when a
\* collaborator has registered a function there, nothing when none has
Heard(cb, n1, n2, tag) ==
    IF Cur[cb] # "null" THEN <<Notification(cb, n1, n2, tag)>> ELSE <<>>

\* C11: a level countdown that reaches zero with an empty collection puts the
\* engine in the level-up pause in that same tick, with level + 1 and
\* levelUpCountdown = 3; the pause is left only by the level-up countdown tick
\* that takes levelUpCountdown from 1 to 0, which restarts the level countdown
\* and the spawner and makes the one level-changed notification, carrying the
\* new level; no other step makes a level-changed notification.
LevelUpPauseCycle ==
    [][/\ (lastOp' = "levelTimer" /\ items = <<>>
           /\ levelTimeRemaining = 1)
             => /\ isLevelUpPause' /\ ~isLevelEnding'
                /\ level' = level + 1
                /\ levelUpCountdown' = levelUpCountdownStart
                /\ levelUpCountdownTimer' = "live"
                /\ ~HasNotification(emitted', "onLevelChange")
       /\ (lastOp' = "countdown" /\ isLevelUpPause /\ levelUpCountdown > 1)
             => /\ isLevelUpPause'
                /\ levelUpCountdown' = levelUpCountdown - 1
                /\ emitted' = <<>>
       /\ ((isLevelUpPause /\ ~isLevelUpPause')
              \/ HasNotification(emitted', "onLevelChange"))
             => /\ lastOp' = "countdown"
                /\ isLevelUpPause /\ ~isLevelUpPause'
                /\ levelUpCountdown = 1 /\ levelUpCountdown' = 0
                /\ level' = level
                /\ levelTimer' = "live" /\ itemSpawnTimer' = "live"
                /\ levelUpCountdownTimer' # "live"
                /\ "levelUpCountdownTimer" \notin orphans'
                /\ emitted' = Heard("onLevelChange", level, 0, "")]_vars

\* the items the updater step evaluates at the catch line
NewlyCaught == {k \in 1 .. Len(items) : ~items[k].caught /\ items'[k].caught}

\* C12: an updater step in which an uncaught bomb reaches the catch line in
\* the basket's zone ends the game in that step: the engine is inactive after
\* it, and the step makes the game-ended notification and the bomb alert.
BombInBasketZoneEndsGame ==
    [][(lastOp' = "updater"
          /\ \E k \in NewlyCaught :
                items[k].isBomb /\ items[k].zone = basketPosition)
        => /\ isGameActive /\ ~isGameActive'
           /\ gameOvers' > gameOvers
           /\ HasNotification(emitted', "onGameEnd")
           /\ \E j \in 1 .. Len(emitted') :
                 emitted'[j].cb = "alert" /\ emitted'[j].tag = BombReason]_vars

\* a bomb has just been caught, after one miss, beside a falling fruit
BombCaughtAfterOneMiss ==
    /\ lastOp = "updater"
    /\ ~isGameActive
    /\ Len(items) = 2
    /\ missCount = maxMisses - 1
    /\ gameOvers = 1
    /\ \E k \in 1 .. Len(items) :
          items[k].isBomb /\ items[k].caught /\ items[k].zone = basketPosition
    /\ emitted = <<Notification("onGameEnd", score, level, ""),
                   Notification("alert", score, level, BombReason)>>

\* C13: an updater step in which the items that reach the catch line are
\* bombs in zones other than the basket's leaves score, missCount and the
\* active flag as they are and makes no notification.
BombElsewhereIsIgnored ==
    [][(lastOp' = "updater" /\ NewlyCaught # {}
          /\ \A k \in NewlyCaught :
                items[k].isBomb /\ items[k].zone # basketPosition)
        => /\ score' = score
           /\ missCount' = missCount
           /\ isGameActive' = isGameActive
           /\ gameOvers' = gameOvers
           /\ emitted' = <<>>]_vars

\* a bomb has landed beside the basket and the game goes on
BombLandedBesideBasket ==
    /\ lastOp = "updater"
    /\ isGameActive
    /\ emitted = <<>>
    /\ \E k \in 1 .. Len(items) :
          /\ items[k].isBomb /\ items[k].caught
          /\ items[k].zone # basketPosition
          /\ items[k].id \in pending

RECURSIVE SumOfPoints(_, _)
SumOfPoints(seq, S) ==
    IF S = {} THEN 0
    ELSE LET k == CHOOSE x \in S : TRUE
         IN  seq[k].points + SumOfPoints(seq, S \ {k})

\* C14: an updater step in which the items that reach the catch line are
\* fruit in the basket's zone raises score by exactly their points, leaves
\* missCount as it is and the game active, and makes one score-changed
\* notification for each of them, the last one carrying the new score.
FruitInBasketZoneScores ==
    [][(lastOp' = "updater" /\ NewlyCaught # {}
          /\ \A k \in NewlyCaught :
                ~items[k].isBomb /\ items[k].zone = basketPosition)
        => /\ score' = score + SumOfPoints(items, NewlyCaught)
           /\ missCount' = missCount
           /\ isGameActive /\ isGameActive'
           /\ Len(emitted') = Cardinality(NewlyCaught)
           /\ \A j \in 1 .. Len(emitted') :
                 /\ emitted'[j].cb = "onScoreChange"
                 /\ emitted'[j].n1 > (IF j = 1 THEN score ELSE emitted'[j - 1].n1)
           /\ emitted'[Len(emitted')].n1 = score']_vars

\* a pear has just been caught: 150 points
PearCaught ==
    /\ lastOp = "updater"
    /\ isGameActive
    /\ score = itemTypes[3].points
    /\ missCount = 0
    /\ emitted = <<Notification("onScoreChange", itemTypes[3].points, 0, "")>>
    /\ \E k \in 1 .. Len(items) :
          items[k].type = "pear" /\ items[k].caught /\ items[k].zone = basketPosition

\* the miss-changed notifications of a handler, in order
RECURSIVE MissChanges(_)
MissChanges(seq) ==
    IF seq = <<>> THEN <<>>
    ELSE (IF Head(seq).cb = "onMissChange" THEN <<Head(seq).n1>> ELSE <<>>)
            \o MissChanges(Tail(seq))

\* C15: an updater step in which the items that reach the catch line are
\* fruit in zones other than the basket's raises missCount by exactly 1 for
\* each of them, leaves score as it is, makes one miss-changed notification
\* with the new missCount for each, and runs game-over once for each of them
\* whose new missCount equals maxMisses and for no other.
FruitElsewhereIsMissed ==
    [][(lastOp' = "updater" /\ NewlyCaught # {}
          /\ \A k \in NewlyCaught :
                ~items[k].isBomb /\ items[k].zone # basketPosition)
        => LET n == Cardinality(NewlyCaught)
           IN  /\ missCount' = missCount + n
               /\ score' = score
               /\ MissChanges(emitted') = [j \in 1 .. n |-> missCount + j]
               /\ gameOvers' - gameOvers =
                     Cardinality({j \in 1 .. n : missCount + j = maxMisses})
               /\ isGameActive' = (gameOvers' = gameOvers)]_vars

\* C16: moveBasket called while the engine is inactive changes no field of
\* the engine and makes no notification, whatever the pose.
InactiveMoveBasketIsNoOp ==
    [][(lastOp' = "moveBasket" /\ ~isGameActive)
        => /\ emitted' = <<>>
           /\ UNCHANGED <<isGameActive, score, level, missCount, basketPosition,
                          items, levelTimeRemaining, isLevelUpPause,
                          levelUpCountdown, isLevelEnding, levelTimer,
                          itemSpawnTimer, itemUpdateTimer, levelUpCountdownTimer,
                          onScoreChange, onMissChange, onLevelChange, onGameEnd,
                          onBasketMove, spawnInterval, orphans, pending>>]_vars

\* moveBasket has just been called on an engine stopped with its basket moved
MoveBasketAfterStop ==
    /\ lastOp = "moveBasket"
    /\ started /\ ~isGameActive
    /\ basketPosition = "LEFT"
    /\ emitted = <<>>

\* C17: a handler that runs game-over makes a game-ended notification with
\* the score and level the handler ends with and with a reason tag, the tag
\* of the bomb or the tag of the misses.
GameEndCarriesReason ==
    [][gameOvers' > gameOvers
        => \E j \in 1 .. Len(emitted') :
              /\ emitted'[j].cb = "onGameEnd"
              /\ emitted'[j].n1 = score' /\ emitted'[j].n2 = level'
              /\ emitted'[j].tag \in {BombReason, MissReason}]_vars

\* C18: the delay before each spawn is a draw of its own: whenever the
\* spawner can fire in phase RUNNING, its firing can leave every delay that
\* getItemSpawnInterval can draw at this level as the delay to the next spawn.
SpawnIntervalRedrawn ==
    (/\ isGameActive /\ ~isLevelEnding /\ ~isLevelUpPause
     /\ itemSpawnTimer = "live"
     /\ ENABLED SpawnerTick)
        => \A u \in 0 .. MaxRandom :
              ENABLED (/\ SpawnerTick
                       /\ spawnInterval' =
                             getItemSpawnInterval([Cur EXCEPT !.random = u]))

\* C19: at every level L the drop time is the number max(2.0 - 0.2 * (L - 1),
\* 0.6): 2.0 at level 1, 0.8 at level 7, 0.6 from level 8 on; and every item
\* in the collection has the drop time of the level it was spawned at.
DropTimeFormula ==
    /\ getDropTimeAsDouble(Cur) =
          Double(Max(baseDropTime - (level - 1) * decreasePerLevel, minDropTime))
    /\ \A k \in 1 .. Len(items) :
          items[k].dropTime = TenthsOf(getDropTimeAsDouble(Cur))

\* C20: a grace-delay removal set in one run that fires after a later start()
\* leaves the new run alone: the collection, the level, the level time and
\* the phase flags stay as they are, and nothing is notified.
StaleRemovalIsNoOp ==
    [][lastOp' = "staleRemoval"
          => /\ items' = items
             /\ level' = level
             /\ levelTimeRemaining' = levelTimeRemaining
             /\ isLevelEnding' = isLevelEnding
             /\ isLevelUpPause' = isLevelUpPause
             /\ emitted' = <<>>]_vars

\* the removal of the run before has fired while an item of the new run falls
StaleRemovalInNewRun ==
    /\ lastOp = "staleRemoval"
    /\ isGameActive
    /\ Len(items) = 1
    /\ ~items[1].caught /\ items[1].progress > 0

\* the notifications of seq made through cb; tag "" counts every tag
CountOf(seq, cb, tag) ==
    Cardinality({j \in 1 .. Len(seq) :
                    seq[j].cb = cb /\ (tag = "" \/ seq[j].tag = tag)})

\* C21: every item is evaluated exactly once.  An item that is caught stays
\* as it is, at progress 0.85, for as long as it is in the collection; an
\* item's progress never decreases and lies in [0, 0.85]; caught is set only
\* by an updater step, and that step applies one outcome for each item it
\* sets caught on: a score change for a fruit in the basket's zone, a miss
\* change for a fruit beside it, the bomb alert for a bomb in the basket's
\* zone, nothing for a bomb beside it.
ItemEvaluatedOnce ==
    [][/\ \A k \in 1 .. Len(items), j \in 1 .. Len(items') :
              items'[j].id = items[k].id
                 => /\ items[k].caught => items'[j] = items[k]
                    /\ items'[j].progress >= items[k].progress
                    /\ (~items[k].caught /\ items'[j].caught)
                          => (lastOp' = "updater" /\ j = k)
       /\ \A j \in 1 .. Len(items') :
              /\ items'[j].progress >= 0
              /\ items'[j].progress <= CatchLine
              /\ items'[j].caught => items'[j].progress = CatchLine
       /\ lastOp' = "updater"
             => /\ Len(items') = Len(items)
                /\ CountOf(emitted', "onScoreChange", "")
                      = Cardinality({k \in NewlyCaught :
                            ~items[k].isBomb /\ items[k].zone = basketPosition})
                /\ CountOf(emitted', "onMissChange", "")
                      = Cardinality({k \in NewlyCaught :
                            ~items[k].isBomb /\ items[k].zone # basketPosition})
                /\ CountOf(emitted', "alert", BombReason)
                      = Cardinality({k \in NewlyCaught :
                            items[k].isBomb /\ items[k].zone = basketPosition})]_vars

\* an updater step has gone by a caught item that waits for its removal
\* while another item is still falling
CaughtItemPassedOver ==
    /\ lastOp = "updater"
    /\ isGameActive
    /\ \E k, j \in 1 .. Len(items) :
          /\ items[k].caught /\ items[k].id \in pending
          /\ ~items[j].caught /\ items[j].progress > 0

\* C22: levelTimeRemaining stays within 0 .. 20 and goes down only in a step
\* taken while active, not level-ending and not in the level-up pause; while
\* active and level-ending it is 0 and an updater step advances every uncaught
\* item; while active and in the level-up pause it is 20 and no item's
\* progress changes.
LevelTimeOnlyWhileRunning ==
    [][/\ levelTimeRemaining' \in 0 .. levelTimeLimit
       /\ levelTimeRemaining' < levelTimeRemaining
             => (isGameActive /\ ~isLevelEnding /\ ~isLevelUpPause)
       /\ (isGameActive' /\ isLevelEnding') => levelTimeRemaining' = 0
       /\ (isGameActive /\ isLevelEnding /\ lastOp' = "updater")
             => \A k \in 1 .. Len(items) :
                   ~items[k].caught
                      => (items'[k].caught
                            \/ items'[k].progress > items[k].progress)
       /\ (isGameActive' /\ isLevelUpPause')
             => levelTimeRemaining' = levelTimeLimit
       /\ (isGameActive /\ isLevelUpPause /\ isLevelUpPause')
             => \A k \in 1 .. Len(items), j \in 1 .. Len(items') :
                   items'[j].id = items[k].id
                      => items'[j].progress = items[k].progress]_vars

\* the three words of the command vocabulary and the zone each one names
Vocabulary == [left |-> "LEFT", front |-> "CENTER", right |-> "RIGHT"]

\* C23: the basket is always in one of the three zones; on an active engine
\* moveBasket with a word that names another zone than the current one puts
\* the basket there and makes the one basket-moved notification, carrying
\* that zone, and moveBasket with a word that names the current zone, or
\* with a word outside the vocabulary, changes nothing and notifies nothing.
BasketFollowsCommands ==
    /\ \E z \in 1 .. Len(zones) : basketPosition = zones[z]
    /\ isGameActive
          => \A pose \in Words :
                LET r == moveBasket(Cur, pose)
                IN  IF pose \in DOMAIN Vocabulary
                       /\ Vocabulary[pose] # basketPosition
                    THEN /\ r = [Cur EXCEPT !.basketPosition = Vocabulary[pose],
                                            !.emitted = r.emitted]
                         /\ r.emitted = Heard("onBasketMove", 0, 0,
                                               Vocabulary[pose])
                    ELSE r = Cur

\* C24: after any sequence of start() and stop(), an active engine that is
\* level-ending (below the last level the model follows) comes to the level-up
\* pause or becomes inactive, and an active engine in the level-up pause comes
\* back to running (neither flag set) or becomes inactive.
LevelMachineProgresses ==
    /\ (isGameActive /\ isLevelEnding /\ level < MaxLevel)
          ~> (isLevelUpPause \/ ~isGameActive)
    /\ (isGameActive /\ isLevelUpPause)
          ~> ((~isLevelUpPause /\ ~isLevelEnding) \/ ~isGameActive)

====
